---- MODULE Spec2Model ----
(***************************************************************************)
(* The DeLand hash-chained land ledger: the Go server embedded in          *)
(* src/client-deland3/app/admin/page.tsx (lines 270-473).                  *)
(*                                                                         *)
(* Strings are TLA+ strings and Go's + is \o.  SHA-256 is idealised as a   *)
(* collision-free function: calculateHash wraps its input in a marker no   *)
(* request field contains, so two digests are equal exactly when the       *)
(* hashed inputs are equal.  Every request handler is a goroutine; its     *)
(* atomic steps are its accesses to the collection and to the clock.       *)
(*                                                                         *)
(* The two pages that call the server are modelled with it: the property   *)
(* page (src/unnamed/part_000) and the admin page (lines 1-270 of the      *)
(* file above).  A step of a page is one run of a handler from an event or *)
(* a settled promise to its next await, with the render that follows it.   *)
(***************************************************************************)
EXTENDS Integers, Sequences, FiniteSets, TLC

\* ------------------------------------------------------------- bounds
\* Number of createEntry calls that may be started in one behaviour.
MaxAppends == 3
\* Number of whole seconds the clock may advance.
MaxTicks == 2

\* ------------------------------------------------------ program values
\* time.Now().Unix() when the server starts (a Unix time in seconds).
ClockStart == 1700000000
\* Go's unicode.MaxRune, the greatest valid code point.
MaxRune == 1114111
\* Go's utf8.RuneError (U+FFFD), what string(rune(x)) gives for an invalid x.
RuneError == 65533
SurrogateMin == 55296
SurrogateMax == 57343

\* The concurrently running gin request handlers.
Handlers == {"h1", "h2"}
\* Property numbers and survey numbers (the two key spaces share values).
Keys == {"K1", "K2"}

Payload(s, p, o, l, a, d) ==
  [SurveyNumber |-> s, PropertyNumber |-> p, OwnerID |-> o,
   LandType |-> l, Action |-> a, Details |-> d]

\* NewEntryPayload values a client may post: every survey/property pair.
Payloads ==
  {Payload(s, p, "o", "Agricultural", "AwardDeclared", "d") : s \in Keys, p \in Keys}

\* Payloads with one required field empty, one per field.
BlankPayloads ==
  {Payload("", "K1", "o", "Agricultural", "AwardDeclared", "d"),
   Payload("K1", "", "o", "Agricultural", "AwardDeclared", "d"),
   Payload("K1", "K1", "", "Agricultural", "AwardDeclared", "d"),
   Payload("K1", "K1", "o", "", "AwardDeclared", "d"),
   Payload("K1", "K1", "o", "Agricultural", "", "d"),
   Payload("K1", "K1", "o", "Agricultural", "AwardDeclared", "")}

VARIABLES
  store,       \* ledgerCollection: the persisted LedgerEntry documents, in insertion order
  now,         \* the server clock when it was last read, in Unix seconds
  nextId,      \* number of uuids handed out so far
  pc,          \* per handler: the step of addEntryHandler/createEntry it is at
  req,         \* per handler: the bound NewEntryPayload
  prevHash,    \* per handler: createEntry's local prevHash
  entry,       \* per handler: createEntry's local entry
  response,    \* the HTTP response written by the step just taken (NoResponse if none)
  findErr,     \* history: per handler, did getLastHash's query fail in this call
  alone,       \* history: per handler, no other append on its property number overlapped this call
  raced,       \* history: property numbers on which two appends were ever in flight together
  page,        \* the property page's React state (the useState values of PropertyPage)
  search,      \* the property page's handleSubmit: the call in flight and, as history, the
               \* number of searches started and the search that wrote verificationStatus last
  runs,        \* the property page's verifyLedger calls, one per search
  admin,       \* the admin page: its React state (formData, isSubmitting, toast), its
               \* pending toast timers and clock, the add_entry calls it has pending,
               \* and, as history, the requests it sent and lost and when the toast was shown
  tampered     \* history: the edit made behind the server's back: the position in store of
               \* the edited document (0 if none), the position of the second document
               \* of an exchange (0 if none), and the survey number it was stored under

vars == <<store, now, nextId, pc, req, prevHash, entry, response,
          findErr, alone, raced, tampered, page, search, runs, admin>>

\* ------------------------------------------------------- Hash Engine
\* calculateHash: hex(sha256(data)), idealised as injective.
calculateHash(data) == "sha256(" \o data \o ")"

Digit == <<"0", "1", "2", "3", "4", "5", "6", "7", "8", "9">>

RECURSIVE Decimal(_)
Decimal(n) == IF n < 10 THEN Digit[n + 1]
              ELSE Decimal(n \div 10) \o Digit[(n % 10) + 1]

\* The one-character string of code point c, written as a token.
CodePointChar(c) == "{U+" \o Decimal(c) \o "}"

\* Go's string(rune(t)) for an int64 t: the UTF-8 encoding of code point t,
\* and of U+FFFD when t is not a valid code point.  (Every t of the model is
\* below 2^31, where the int64 -> int32 conversion keeps the value.)
RuneString(t) ==
  IF t >= 0 /\ t <= MaxRune /\ ~(t >= SurrogateMin /\ t <= SurrogateMax)
  THEN CodePointChar(t)
  ELSE CodePointChar(RuneError)

\* A raw that writes the timestamp in decimal digits.
RawDecimalTimestamp(id, payload, timestamp) ==
  id \o payload.SurveyNumber \o payload.PropertyNumber \o payload.OwnerID
     \o payload.LandType \o payload.Action \o payload.Details
     \o Decimal(timestamp)

\* createEntry's raw: the id, the payload's fields and the timestamp.
Raw(id, payload, timestamp) ==
  id \o payload.SurveyNumber \o payload.PropertyNumber \o payload.OwnerID
     \o payload.LandType \o payload.Action \o payload.Details
     \o RuneString(timestamp)

\* The argument of calculateHash in verifyLedgerHandler: the stored fields of
\* an entry, then its prev_hash.
HashInput(e) ==
  e.ID \o e.SurveyNumber \o e.PropertyNumber \o e.OwnerID \o e.LandType
       \o e.Action \o e.Details \o RuneString(e.Timestamp) \o e.PrevHash

\* An identifier source that hands out the same two identifiers in turn.
IdStringReused(n) == "u" \o Digit[(n % 2) + 1]

\* uuid.New().String(): a fresh fixed-width identifier.
IdString(n) == "u" \o Digit[n + 1]

\* ------------------------------------------------------------- store
Entries == {store[i] : i \in 1..Len(store)}

\* ledgerCollection.Find(bson.M{"property_number": k})
FindByProperty(k) == {e \in Entries : e.PropertyNumber = k}
\* ledgerCollection.Find(bson.M{"survey_number": k})
FindBySurvey(k) == {e \in Entries : e.SurveyNumber = k}

\* The results of sort.Slice by Timestamp on the documents S, which the query
\* returns in no promised order and which sort.Slice does not sort stably:
\* every arrangement of S with non-decreasing timestamps (built from its last
\* element, a document of greatest timestamp, backwards).
RECURSIVE SortedByTimestamp(_)
SortedByTimestamp(S) ==
  IF S = {} THEN {<<>>}
  ELSE UNION {{Append(s, e) : s \in SortedByTimestamp(S \ {e})} :
                e \in {x \in S : \A y \in S : y.Timestamp <= x.Timestamp}}

\* getLastHash's results when its query succeeds.
LastHashes(k) ==
  IF FindByProperty(k) = {} THEN {"genesis"}
  ELSE {s[Len(s)].Hash : s \in SortedByTimestamp(FindByProperty(k))}

\* ------------------------------------------------------ Chain Verifier
\* An iteration's test that recomputes the digest but does not compare
\* curr.PrevHash with prev.Hash.
PairBrokenDigestOnly(prev, curr) ==
  curr.Hash # calculateHash(HashInput(curr))

\* One iteration's test in verifyLedgerHandler (0-based i there, i >= 1).
PairBroken(prev, curr) ==
  curr.PrevHash # prev.Hash \/ curr.Hash # calculateHash(HashInput(curr))

\* A scan in which the last pair examined decides: valid is assigned on every
\* iteration and the loop does not stop at a broken pair.
VerifyFromLastPairWins(chain, i) ==
  IF i > Len(chain) THEN TRUE
  ELSE ~PairBroken(chain[Len(chain) - 1], chain[Len(chain)])

\* The for loop of verifyLedgerHandler from (1-based) position i on: valid
\* stays true until a broken pair sets it false and breaks.
RECURSIVE VerifyFrom(_, _)
VerifyFrom(chain, i) ==
  IF i > Len(chain) THEN TRUE
  ELSE IF PairBroken(chain[i - 1], chain[i]) THEN FALSE
  ELSE VerifyFrom(chain, i + 1)

\* A verify that also examines the first entry: it must start at the sentinel
\* and carry its recomputed digest.
VerifyChainFromFirst(chain) ==
  /\ Len(chain) > 0 =>
        /\ chain[1].PrevHash = "genesis"
        /\ chain[1].Hash = calculateHash(HashInput(chain[1]))
  /\ VerifyFrom(chain, 2)

VerifyChain(chain) == VerifyFrom(chain, 2)

\* The verdicts verifyLedgerHandler can reach for survey number k in the
\* current store, one per arrangement the query and the sort may produce.
VerifyResults(k) ==
  {VerifyChain(chain) : chain \in SortedByTimestamp(FindBySurvey(k))}

\* ------------------------------------------------------ property page
\* JavaScript's null.
Null == "null"
\* The searches a user makes on the property page, in order.
SearchIds == {1, 2}

\* Payloads posted for the ledger the page is used on: entries of property
\* number K1 under either survey number, by two owners.
PagePayloads ==
  {Payload("K1", "K1", "o", "Agricultural", "AwardDeclared", "d"),
   Payload("K2", "K1", "x", "Agricultural", "AwardDeclared", "d")}

\* verificationStatus as useState initialises it and handleSubmit resets it.
\* isValid is "true", "false" or null.
NoStatus == [isVerifying |-> FALSE, isValid |-> Null, surveyNumbers |-> <<>>]

\* The useState initial values of PropertyPage.
InitialPage ==
  [ledgerEntries |-> <<>>, currentOwner |-> Null, isLoading |-> FALSE,
   error |-> Null, hasSearched |-> FALSE, verificationStatus |-> NoStatus]

\* A verifyLedger call that has not started.  surveyNumbers is its argument;
\* results holds, per unique survey number, the state of its verification
\* promise: "pending", or how it settled.
NoRun == [pc |-> "none", surveyNumbers |-> <<>>, results |-> <<>>]

NoSearch == [count |-> 0, pc |-> "idle", property |-> "", writer |-> 0]

\* new Date(timestamp).getTime() for a numeric timestamp: the number itself
\* (TimeClip keeps every integer of magnitude up to 8.64e15, which all Unix
\* times in seconds are).
DateGetTime(timestamp) == timestamp

\* Array.prototype.sort is stable.  s is sorted by the comparator
\* sign * (getTime(a) - getTime(b)); x goes behind every element that does
\* not compare greater than x.
InsertStable(s, x, sign) ==
  LET k == Cardinality({i \in 1..Len(s) :
             sign * (DateGetTime(s[i].Timestamp) - DateGetTime(x.Timestamp)) <= 0})
  IN SubSeq(s, 1, k) \o <<x>> \o SubSeq(s, k + 1, Len(s))

\* data.sort(comparator), sign = 1 for ascending and -1 for descending time.
RECURSIVE StableSort(_, _)
StableSort(data, sign) ==
  IF data = <<>> THEN <<>>
  ELSE InsertStable(StableSort(SubSeq(data, 1, Len(data) - 1), sign),
                    data[Len(data)], sign)

\* [...new Set(surveyNumbers)]: the first occurrences, in order.
RECURSIVE Unique(_)
Unique(surveyNumbers) ==
  IF surveyNumbers = <<>> THEN <<>>
  ELSE LET front == Unique(SubSeq(surveyNumbers, 1, Len(surveyNumbers) - 1))
           last == surveyNumbers[Len(surveyNumbers)]
       IN IF \E i \in 1..Len(front) : front[i] = last THEN front
          ELSE Append(front, last)

\* A verdict in which one valid chain is enough.
SomeValid(results) == \E i \in 1..Len(results) : results[i] = "valid"

\* results.every((result) => result === true): a promise's value is true only
\* when the response was ok and its valid was true.
AllValid(results) == \A i \in 1..Len(results) : results[i] = "valid"

\* How the fetch of /verify/surveyNumber can settle: the server answers 200
\* with a verdict it can reach now, or 500 ("notok"), or the fetch throws.
VerifyOutcomes(surveyNumber) ==
  {IF v THEN "valid" ELSE "invalid" : v \in VerifyResults(surveyNumber)}
    \cup {"notok", "thrown"}

\* --------------------------------------------------- admin page, its data

\* The delay of showToast's setTimeout, in milliseconds.
ToastDelay == 5000

\* The admin page's clock advances in steps of half the toast delay, so that
\* a toast can be shown while the timer of an earlier one is pending, up to
\* MaxClock.
TickMs == ToastDelay \div 2
MaxClock == ToastDelay + MaxTicks * TickMs

\* toast = null.
NoToast == [type |-> Null, message |-> Null]

\* The useState initial value of formData, which handleSubmit also sets
\* after a success.
DefaultForm ==
  [surveyNumber |-> "", propertyNumber |-> "", ownerID |-> "",
   landType |-> "Agricultural", action |-> "AwardDeclared", details |-> ""]

\* The text inputs of the form from top to bottom (all carry the attribute
\* required) and what a user types into each.
TextInputs == <<"surveyNumber", "propertyNumber", "ownerID", "details">>
InputValues == <<"K1", "K1", "o", "d">>

\* The browser's constraint validation: a submit event is dispatched only
\* when no required input is empty.
FormValid(formData) ==
  \A i \in 1..Len(TextInputs) : formData[TextInputs[i]] # ""

\* The object handleSubmit passes to JSON.stringify.
FormBody(formData) ==
  Payload(formData.surveyNumber, formData.propertyNumber, formData.ownerID,
          formData.landType, formData.action, formData.details)

\* showToast at the state a of the admin page: the toast is set and a timer
\* that will clear the toast is started; no timer is cancelled.
showToast(a, type, message) ==
  [a EXCEPT !.toast = [type |-> type, message |-> message],
            !.shownAt = a.clock,
            !.timers = @ \cup {a.clock + ToastDelay}]

\* The admin page after mounting.  timers holds the instants at which a
\* pending timer of showToast is due; inFlight counts the fetch calls of
\* handleSubmit that have not settled; body is the body of the last request;
\* sent and lost count the requests issued and those that never reached the
\* server; shownAt is when the toast was shown last.
InitialAdmin ==
  [formData |-> DefaultForm, isSubmitting |-> FALSE, toast |-> NoToast,
   timers |-> {}, clock |-> 0, inFlight |-> 0, body |-> Payload("", "", "", "", "", ""),
   sent |-> 0, lost |-> 0, shownAt |-> 0]

\* -------------------------------------------------------------- state
NoPayload == Payload("", "", "", "", "", "")
NoEntry == [ID |-> "", SurveyNumber |-> "", PropertyNumber |-> "", OwnerID |-> "",
            LandType |-> "", Action |-> "", Details |-> "", Timestamp |-> 0,
            PrevHash |-> "", Hash |-> ""]
\* A response: the handler that wrote it, the status code, the keys of the
\* JSON object in the body, and their values (entry for add_entry; land_id and
\* valid for verify).  chain is the sorted slice verifyLedgerHandler scanned,
\* and the array getPropertyHistoryHandler answers.  The rest describes the
\* call that was answered: payload and alone for add_entry, land_id also for
\* the path parameter of a history request, findErr for a call whose query
\* (Find or cur.All) failed.
NoResponse == [op |-> "none", status |-> 0, keys |-> {}, entry |-> NoEntry,
               land_id |-> "", valid |-> FALSE, chain |-> <<>>,
               payload |-> NoPayload, findErr |-> FALSE, alone |-> TRUE]

\* No edit has been made behind the server's back.
NotTampered == [pos |-> 0, other |-> 0, survey |-> ""]

InFlight == {p \in Handlers : pc[p] # "idle"}
\* Calls that have not drawn their uuid yet.
Unstamped == {p \in Handlers : pc[p] \in {"getLastHash", "newEntry"}}

Init ==
  /\ store = <<>>
  /\ now = ClockStart
  /\ nextId = 0
  /\ pc = [p \in Handlers |-> "idle"]
  /\ req = [p \in Handlers |-> NoPayload]
  /\ prevHash = [p \in Handlers |-> ""]
  /\ entry = [p \in Handlers |-> NoEntry]
  /\ response = NoResponse
  /\ findErr = [p \in Handlers |-> FALSE]
  /\ alone = [p \in Handlers |-> TRUE]
  /\ raced = {}
  /\ tampered = NotTampered
  /\ page = InitialPage
  /\ search = NoSearch
  /\ runs = [r \in SearchIds |-> NoRun]
  /\ admin = InitialAdmin

\* addEntryHandler, c.BindJSON fails: 400, nothing else happens.
AddEntryBadJSON(p) ==
  /\ pc[p] = "idle"
  /\ response' = [NoResponse EXCEPT !.op = "add_entry", !.status = 400,
                    !.keys = {"error"}]
  /\ UNCHANGED <<admin, store, now, nextId, pc, req, prevHash, entry, findErr, alone,
                 raced, tampered,
                 page, search, runs>>

\* addEntryHandler, c.BindJSON succeeds (it checks no field): createEntry is called.
AddEntryBegin(p, payload) ==
  /\ pc[p] = "idle"
  /\ nextId + Cardinality(Unstamped) < MaxAppends
  /\ pc' = [pc EXCEPT ![p] = "getLastHash"]
  /\ req' = [req EXCEPT ![p] = payload]
  /\ response' = NoResponse
  /\ LET others == {q \in InFlight : req[q].PropertyNumber = payload.PropertyNumber}
     IN /\ alone' = [q \in Handlers |->
                       IF q = p THEN others = {}
                       ELSE IF q \in others THEN FALSE ELSE alone[q]]
        /\ raced' = IF others = {} THEN raced
                    ELSE raced \cup {payload.PropertyNumber}
  /\ UNCHANGED <<admin, store, now, nextId, prevHash, entry, findErr, tampered,
                 page, search, runs>>

\* getLastHash, the query succeeds: the Hash of the last entry after the sort,
\* "genesis" when the property has no entry.
GetLastHash(p) ==
  /\ pc[p] = "getLastHash"
  /\ \E h \in LastHashes(req[p].PropertyNumber) :
        prevHash' = [prevHash EXCEPT ![p] = h]
  /\ pc' = [pc EXCEPT ![p] = "newEntry"]
  /\ response' = NoResponse
  /\ UNCHANGED <<admin, store, now, nextId, req, entry, findErr, alone, raced, tampered,
                 page, search, runs>>

\* getLastHash, the query fails (Find or cur.All returns an error): the
\* function returns "genesis" and createEntry goes on.
GetLastHashFail(p) ==
  /\ pc[p] = "getLastHash"
  /\ prevHash' = [prevHash EXCEPT ![p] = "genesis"]
  /\ findErr' = [findErr EXCEPT ![p] = TRUE]
  /\ pc' = [pc EXCEPT ![p] = "newEntry"]
  /\ response' = NoResponse
  /\ UNCHANGED <<admin, store, now, nextId, req, entry, alone, raced, tampered,
                 page, search, runs>>

\* createEntry lines 338-354: the timestamp, the uuid, the digest, the entry.
\* time.Now().Unix() returns t: the clock has advanced to t since it was last
\* read (the clock is read nowhere else, so it moves when it is read).
NewEntry(p, t) ==
  /\ pc[p] = "newEntry"
  /\ now' = t
  /\ nextId' = nextId + 1
  /\ LET e == [ID |-> IdString(nextId + 1),
               SurveyNumber |-> req[p].SurveyNumber,
               PropertyNumber |-> req[p].PropertyNumber,
               OwnerID |-> req[p].OwnerID,
               LandType |-> req[p].LandType,
               Action |-> req[p].Action,
               Details |-> req[p].Details,
               Timestamp |-> t,
               PrevHash |-> prevHash[p],
               Hash |-> ""]
     IN entry' = [entry EXCEPT ![p] =
                    [e EXCEPT !.Hash = calculateHash(Raw(e.ID, req[p], t) \o prevHash[p])]]
  /\ pc' = [pc EXCEPT ![p] = "insertOne"]
  /\ response' = NoResponse
  /\ UNCHANGED <<admin, store, req, prevHash, findErr, alone, raced, tampered,
                 page, search, runs>>

\* createEntry returns to addEntryHandler, which answers; the call's locals
\* go out of scope.
Return(p, status, body) ==
  /\ response' = [NoResponse EXCEPT !.op = "add_entry", !.status = status,
                    !.keys = IF status = 200 THEN {"status", "entry"} ELSE {"error"},
                    !.entry = body, !.payload = req[p],
                    !.findErr = findErr[p], !.alone = alone[p]]
  /\ pc' = [pc EXCEPT ![p] = "idle"]
  /\ req' = [req EXCEPT ![p] = NoPayload]
  /\ prevHash' = [prevHash EXCEPT ![p] = ""]
  /\ entry' = [entry EXCEPT ![p] = NoEntry]
  /\ findErr' = [findErr EXCEPT ![p] = FALSE]
  /\ alone' = [alone EXCEPT ![p] = TRUE]

\* ledgerCollection.InsertOne succeeds: 200 with the entry.
InsertOne(p) ==
  /\ pc[p] = "insertOne"
  /\ store' = Append(store, entry[p])
  /\ Return(p, 200, entry[p])
  /\ UNCHANGED <<admin, now, nextId, raced, tampered,
                 page, search, runs>>

\* ledgerCollection.InsertOne fails: 500 with the error, nothing is stored.
InsertOneFail(p) ==
  /\ pc[p] = "insertOne"
  /\ Return(p, 500, NoEntry)
  /\ UNCHANGED <<admin, store, now, nextId, raced, tampered,
                 page, search, runs>>

\* A verify that treats a broken chain as a failure: it answers 500 instead
\* of valid = false.
VerifyLedgerHandlerStrict(landID) ==
  /\ \E chain \in SortedByTimestamp(FindBySurvey(landID)) :
        response' = IF VerifyChain(chain)
                    THEN [NoResponse EXCEPT !.op = "verify", !.status = 200,
                            !.keys = {"land_id", "valid"},
                            !.land_id = landID, !.valid = TRUE, !.chain = chain]
                    ELSE [NoResponse EXCEPT !.op = "verify", !.status = 500,
                            !.keys = {"error"}]
  /\ UNCHANGED <<admin, store, now, nextId, pc, req, prevHash, entry, findErr, alone,
                 raced, tampered,
                 page, search, runs>>

\* A verify that repairs what it finds: it writes the store back with the
\* entries of a chain it found broken removed.
VerifyLedgerHandlerPruning(landID) ==
  /\ \E chain \in SortedByTimestamp(FindBySurvey(landID)) :
        /\ response' = [NoResponse EXCEPT !.op = "verify", !.status = 200,
                          !.keys = {"land_id", "valid"},
                          !.land_id = landID, !.valid = VerifyChain(chain),
                          !.chain = chain]
        /\ store' = IF VerifyChain(chain) THEN store
                    ELSE SelectSeq(store, LAMBDA e : e.SurveyNumber # landID)
  /\ UNCHANGED <<admin, now, nextId, pc, req, prevHash, entry, findErr, alone,
                 raced, tampered,
                 page, search, runs>>

\* verifyLedgerHandler, the query succeeds: the documents of the survey number
\* are sorted and scanned, and {land_id, valid} is answered with 200.
VerifyLedgerHandler(landID) ==
  /\ \E chain \in SortedByTimestamp(FindBySurvey(landID)) :
        response' = [NoResponse EXCEPT !.op = "verify", !.status = 200,
                       !.keys = {"land_id", "valid"},
                       !.land_id = landID, !.valid = VerifyChain(chain),
                       !.chain = chain]
  /\ UNCHANGED <<admin, store, now, nextId, pc, req, prevHash, entry, findErr, alone,
                 raced, tampered,
                 page, search, runs>>

\* verifyLedgerHandler, the query fails (Find or cur.All): 500.
VerifyLedgerHandlerFail(landID) ==
  /\ response' = [NoResponse EXCEPT !.op = "verify", !.status = 500,
                    !.keys = {"error"}, !.findErr = TRUE]
  /\ UNCHANGED <<admin, store, now, nextId, pc, req, prevHash, entry, findErr, alone,
                 raced, tampered,
                 page, search, runs>>

\* A history listing that queries by survey number.
GetPropertyHistoryHandlerBySurvey(property) ==
  /\ IF FindBySurvey(property) = {}
     THEN response' = [NoResponse EXCEPT !.op = "history", !.status = 404,
                         !.keys = {"error"}, !.land_id = property]
     ELSE \E history \in SortedByTimestamp(FindBySurvey(property)) :
             response' = [NoResponse EXCEPT !.op = "history", !.status = 200,
                            !.land_id = property, !.chain = history]
  /\ UNCHANGED <<admin, store, now, nextId, pc, req, prevHash, entry, findErr, alone,
                 raced, tampered,
                 page, search, runs>>

\* getPropertyHistoryHandler, the query succeeds: 404 when the property has no
\* document, else the documents sorted by timestamp with 200.
GetPropertyHistoryHandler(property) ==
  /\ IF FindByProperty(property) = {}
     THEN response' = [NoResponse EXCEPT !.op = "history", !.status = 404,
                         !.keys = {"error"}, !.land_id = property]
     ELSE \E history \in SortedByTimestamp(FindByProperty(property)) :
             response' = [NoResponse EXCEPT !.op = "history", !.status = 200,
                            !.land_id = property, !.chain = history]
  /\ UNCHANGED <<admin, store, now, nextId, pc, req, prevHash, entry, findErr, alone,
                 raced, tampered,
                 page, search, runs>>

\* getPropertyHistoryHandler, the query fails (Find or cur.All): 500.
GetPropertyHistoryHandlerFail(property) ==
  /\ response' = [NoResponse EXCEPT !.op = "history", !.status = 500,
                    !.keys = {"error"}, !.findErr = TRUE]
  /\ UNCHANGED <<admin, store, now, nextId, pc, req, prevHash, entry, findErr, alone,
                 raced, tampered,
                 page, search, runs>>

\* The fields an editor of the database may change, each with the values the
\* edit may write.  Hash and PrevHash are left as stored.
TamperFields ==
  {"ID", "SurveyNumber", "PropertyNumber", "OwnerID", "LandType", "Action",
   "Details", "Timestamp"}

TamperValues(f) ==
  CASE f = "ID" -> {"u9"}
    [] f = "SurveyNumber" -> Keys
    [] f = "PropertyNumber" -> Keys
    [] f = "OwnerID" -> {"o", "x"}
    [] f = "LandType" -> {"Agricultural", "Non-Agricultural"}
    [] f = "Action" -> {"AwardDeclared", "Compensated"}
    [] f = "Details" -> {"d", "e"}
    [] f = "Timestamp" -> ClockStart..ClockStart + MaxTicks

\* Somebody edits one field of one stored document directly in the database
\* (spec section 8: "hand-edit the second record's details field in the
\* store"); the stored digest is not recomputed.  At most one edit is made.
Tamper(i, f, v) ==
  /\ tampered = NotTampered
  /\ i \in 1..Len(store)
  /\ v # store[i][f]
  /\ store' = [store EXCEPT ![i] = [store[i] EXCEPT ![f] = v]]
  /\ tampered' = [pos |-> i, other |-> 0, survey |-> store[i].SurveyNumber]
  /\ response' = NoResponse
  /\ UNCHANGED <<admin, now, nextId, pc, req, prevHash, entry, findErr, alone, raced,
                 page, search, runs>>

\* Somebody exchanges the timestamps of two stored documents of one survey
\* number directly in the database, which exchanges their places in the order
\* verifyLedgerHandler scans (spec section 8: "swapping the order of two
\* records without updating their previousDigest links").  The timestamps
\* differ, or nothing would be exchanged.  At most one edit is made.
SwapTimestamps(i, j) ==
  /\ tampered = NotTampered
  /\ i \in 1..Len(store)
  /\ j \in 1..Len(store)
  /\ i < j
  /\ store[i].SurveyNumber = store[j].SurveyNumber
  /\ store[i].Timestamp # store[j].Timestamp
  /\ store' = [store EXCEPT ![i] = [store[i] EXCEPT !.Timestamp = store[j].Timestamp],
                            ![j] = [store[j] EXCEPT !.Timestamp = store[i].Timestamp]]
  /\ tampered' = [pos |-> i, other |-> j, survey |-> store[i].SurveyNumber]
  /\ response' = NoResponse
  /\ UNCHANGED <<admin, now, nextId, pc, req, prevHash, entry, findErr, alone, raced,
                 page, search, runs>>

\* ------------------------------------------------ property page actions
\* handleSubmit with a blank input: the error is set and nothing else happens.
\* (The Search button is disabled while isLoading.)
SubmitBlank ==
  /\ ~page.isLoading
  /\ page' = [page EXCEPT !.error = "Please enter a property number"]
  /\ response' = NoResponse
  /\ UNCHANGED <<admin, store, now, nextId, pc, req, prevHash, entry, findErr, alone,
                 raced, tampered, search, runs>>

\* handleSubmit up to its await: the state is reset and the request for
\* /property/propertyNumber is sent.
Submit(propertyNumber) ==
  /\ ~page.isLoading
  /\ search.pc = "idle"
  /\ search.count + 1 \in SearchIds
  /\ page' = [page EXCEPT !.isLoading = TRUE, !.error = Null,
                          !.hasSearched = TRUE, !.verificationStatus = NoStatus]
  /\ search' = [count |-> search.count + 1, pc |-> "fetching",
                property |-> propertyNumber, writer |-> search.count + 1]
  /\ response' = NoResponse
  /\ UNCHANGED <<admin, store, now, nextId, pc, req, prevHash, entry, findErr, alone,
                 raced, tampered, runs>>

\* handleSubmit after a 200 answer carrying data: both sorts, the entries, the
\* owner, and the call of verifyLedger, which runs up to its first await (it
\* returns at once for no survey number, else marks the status as verifying
\* and starts the 1 second timer); then finally.
PropertyFound ==
  /\ search.pc = "fetching"
  /\ FindByProperty(search.property) # {}
  /\ \E data \in SortedByTimestamp(FindByProperty(search.property)) :
        LET sortedEntries == StableSort(data, -1)
            chronologicalEntries == StableSort(data, 1)
            surveyNumbers == [i \in 1..Len(chronologicalEntries) |->
                                chronologicalEntries[i].SurveyNumber]
        IN IF Len(data) > 0
           THEN /\ page' = [page EXCEPT
                              !.ledgerEntries = chronologicalEntries,
                              !.currentOwner = sortedEntries[1].OwnerID,
                              !.verificationStatus =
                                 IF Len(surveyNumbers) = 0 THEN @
                                 ELSE [@ EXCEPT !.isVerifying = TRUE, !.isValid = Null],
                              !.isLoading = FALSE]
                /\ runs' = [runs EXCEPT ![search.count] =
                              IF Len(surveyNumbers) = 0
                              THEN [NoRun EXCEPT !.pc = "done"]
                              ELSE [NoRun EXCEPT !.pc = "delay",
                                                 !.surveyNumbers = surveyNumbers]]
           ELSE /\ page' = [page EXCEPT !.ledgerEntries = <<>>,
                                        !.currentOwner = Null,
                                        !.isLoading = FALSE]
                /\ runs' = runs
  /\ search' = [search EXCEPT !.pc = "idle"]
  /\ response' = NoResponse
  /\ UNCHANGED <<admin, store, now, nextId, pc, req, prevHash, entry, findErr, alone,
                 raced, tampered>>

\* A failure branch that reports the error and leaves the displayed entries
\* and owner alone.
SearchFailedKeepsEntries(message) ==
  /\ search.pc = "fetching"
  /\ page' = [page EXCEPT !.error = message, !.isLoading = FALSE]
  /\ search' = [search EXCEPT !.pc = "idle"]
  /\ response' = NoResponse
  /\ UNCHANGED <<admin, store, now, nextId, pc, req, prevHash, entry, findErr, alone,
                 raced, tampered, runs>>

\* handleSubmit's three failure branches; message is what setError gets.
SearchFailed(message) ==
  /\ search.pc = "fetching"
  /\ page' = [page EXCEPT !.error = message, !.ledgerEntries = <<>>,
                          !.currentOwner = Null, !.isLoading = FALSE]
  /\ search' = [search EXCEPT !.pc = "idle"]
  /\ response' = NoResponse
  /\ UNCHANGED <<admin, store, now, nextId, pc, req, prevHash, entry, findErr, alone,
                 raced, tampered, runs>>

\* The server answers 404: the property has no entry.
PropertyNotFound ==
  /\ search.pc = "fetching"
  /\ FindByProperty(search.property) = {}
  /\ SearchFailed("Property not found")

\* The server answers 500 with {"error": ...}: the body has no message.
PropertyServerError ==
  SearchFailed("Failed to fetch property details")

\* fetch throws.
PropertyNetworkError ==
  SearchFailed("Network error: Unable to connect to server")

\* verifyLedger after the 1 second delay: one request per unique survey
\* number is sent.
TimerFires(r) ==
  /\ runs[r].pc = "delay"
  /\ runs' = [runs EXCEPT ![r] =
                [@ EXCEPT !.pc = "fetching",
                          !.results = [i \in 1..Len(Unique(runs[r].surveyNumbers)) |->
                                         "pending"]]]
  /\ response' = NoResponse
  /\ UNCHANGED <<admin, store, now, nextId, pc, req, prevHash, entry, findErr, alone,
                 raced, tampered, page, search>>

\* One request of verifyLedger call r settles.  A throw rejects Promise.all
\* at once and the catch block writes the status; the last of the answers
\* resolves Promise.all and the status is written from all of them.
VerifyResponse(r, i, outcome) ==
  /\ runs[r].pc = "fetching"
  /\ i \in 1..Len(runs[r].results)
  /\ runs[r].results[i] = "pending"
  /\ outcome \in VerifyOutcomes(Unique(runs[r].surveyNumbers)[i])
  /\ LET results == [runs[r].results EXCEPT ![i] = outcome]
         settled == \A j \in 1..Len(results) : results[j] # "pending"
     IN IF outcome = "thrown"
        THEN /\ runs' = [runs EXCEPT ![r] = [@ EXCEPT !.pc = "done", !.results = results]]
             /\ page' = [page EXCEPT !.verificationStatus =
                           [isVerifying |-> FALSE, isValid |-> "false",
                            surveyNumbers |-> runs[r].surveyNumbers]]
             /\ search' = [search EXCEPT !.writer = r]
        ELSE IF settled
        THEN /\ runs' = [runs EXCEPT ![r] = [@ EXCEPT !.pc = "done", !.results = results]]
             /\ page' = [page EXCEPT !.verificationStatus =
                           [isVerifying |-> FALSE,
                            isValid |-> IF AllValid(results) THEN "true" ELSE "false",
                            surveyNumbers |-> Unique(runs[r].surveyNumbers)]]
             /\ search' = [search EXCEPT !.writer = r]
        ELSE /\ runs' = [runs EXCEPT ![r] = [@ EXCEPT !.results = results]]
             /\ UNCHANGED <<page, search>>
  /\ response' = NoResponse
  /\ UNCHANGED <<admin, store, now, nextId, pc, req, prevHash, entry, findErr, alone,
                 raced, tampered>>

\* ------------------------------------------------- admin page, its steps
\* The server-side variables an admin page step leaves alone.
ServerVars == <<store, now, nextId, pc, req, prevHash, entry, findErr, alone,
                raced, tampered>>

\* A request of the admin page is on its way to the server: the page is the
\* server's only client, so every request sent and not lost is either on its
\* way or has been bound by addEntryHandler, whose calls each draw one uuid.
InNetwork == admin.sent - admin.lost > nextId + Cardinality(Unstamped)

\* handleInputChange: one input of the form gets a new value.
handleInputChange(name, value) ==
  /\ admin.formData[name] # value
  /\ admin' = [admin EXCEPT !.formData[name] = value]
  /\ UNCHANGED <<ServerVars, response, page, search, runs>>

\* A submit that a disabled button does not hold back.
AdminSubmitAnyTime ==
  /\ FormValid(admin.formData)
  /\ admin.sent < MaxAppends
  /\ admin' = [admin EXCEPT !.isSubmitting = TRUE, !.inFlight = @ + 1,
                            !.sent = @ + 1, !.body = FormBody(admin.formData)]
  /\ response' = NoResponse
  /\ UNCHANGED <<ServerVars, page, search, runs>>

\* handleSubmit up to its await: a submit event reaches the form only while
\* the submit button is enabled (disabled={isSubmitting}; React commits the
\* state update of a submit event before the browser dispatches the next
\* event) and the required inputs are filled.  isSubmitting is set and the
\* request is sent with the form data of this render.
AdminSubmit ==
  /\ ~admin.isSubmitting
  /\ FormValid(admin.formData)
  /\ admin.sent < MaxAppends
  /\ admin' = [admin EXCEPT !.isSubmitting = TRUE, !.inFlight = @ + 1,
                            !.sent = @ + 1, !.body = FormBody(admin.formData)]
  /\ response' = NoResponse
  /\ UNCHANGED <<ServerVars, page, search, runs>>

\* A handleSubmit that gives the form its defaults back whatever the answer.
AdminResponseAlwaysResets ==
  /\ admin.inFlight > 0
  /\ response.op = "add_entry"
  /\ admin' = [showToast(admin, IF response.status = 200 THEN "success" ELSE "error",
                         IF response.status = 200 THEN "Land entry added successfully!"
                         ELSE "Failed to add land entry")
                 EXCEPT !.formData = DefaultForm,
                        !.isSubmitting = FALSE, !.inFlight = @ - 1]
  /\ response' = NoResponse
  /\ UNCHANGED <<ServerVars, page, search, runs>>

\* handleSubmit after the server's answer: for an ok answer the success toast
\* and the form's defaults, else the error toast (the server's error bodies
\* carry the key error and no message, so the fallback text is shown); then
\* finally.
AdminResponse ==
  /\ admin.inFlight > 0
  /\ response.op = "add_entry"
  /\ admin' = IF response.status = 200
              THEN [showToast(admin, "success", "Land entry added successfully!")
                      EXCEPT !.formData = DefaultForm,
                             !.isSubmitting = FALSE, !.inFlight = @ - 1]
              ELSE [showToast(admin, "error", "Failed to add land entry")
                      EXCEPT !.isSubmitting = FALSE, !.inFlight = @ - 1]
  /\ response' = NoResponse
  /\ UNCHANGED <<ServerVars, page, search, runs>>

\* handleSubmit's catch block: fetch throws, either because the request never
\* reaches the server or because the server's answer does not reach the
\* page; then finally.
AdminNetworkError ==
  /\ admin.inFlight > 0
  /\ pc["h1"] = "idle"
  /\ admin' = [showToast(admin, "error", "Network error: Unable to connect to server")
                 EXCEPT !.isSubmitting = FALSE, !.inFlight = @ - 1,
                        !.lost = IF InNetwork THEN @ + 1 ELSE @]
  /\ response' = NoResponse
  /\ UNCHANGED <<ServerVars, page, search, runs>>

\* A timer of showToast fires: setToast(null), whichever toast is shown.
ToastTimeout(due) ==
  /\ due \in admin.timers
  /\ due <= admin.clock
  /\ admin' = [admin EXCEPT !.toast = NoToast, !.timers = @ \ {due}]
  /\ UNCHANGED <<ServerVars, response, page, search, runs>>

\* The toast's close button: setToast(null).
ToastDismiss ==
  /\ admin.toast # NoToast
  /\ admin' = [admin EXCEPT !.toast = NoToast]
  /\ UNCHANGED <<ServerVars, response, page, search, runs>>

\* Time passes on the admin page; a timer that is due fires first.
AdminTick ==
  /\ admin.clock < MaxClock
  /\ \A due \in admin.timers : due > admin.clock
  /\ admin' = [admin EXCEPT !.clock = @ + TickMs]
  /\ UNCHANGED <<ServerVars, response, page, search, runs>>

\* --------------------------------------------------------- specifications
\* Concurrent clients and a store that answers every operation.
Next ==
  \/ \E p \in Handlers : AddEntryBadJSON(p)
  \/ \E p \in Handlers : \E payload \in Payloads : AddEntryBegin(p, payload)
  \/ \E p \in Handlers : GetLastHash(p)
  \/ \E p \in Handlers : \E t \in now..ClockStart + MaxTicks : NewEntry(p, t)
  \/ \E p \in Handlers : InsertOne(p)
  \/ \E k \in Keys : VerifyLedgerHandler(k)
  \/ \E k \in Keys : GetPropertyHistoryHandler(k)

Spec == Init /\ [][Next]_vars

\* Concurrent clients and a store whose operations may fail.
NextFault ==
  \/ Next
  \/ \E p \in Handlers : GetLastHashFail(p)
  \/ \E p \in Handlers : InsertOneFail(p)
  \/ \E k \in Keys : VerifyLedgerHandlerFail(k)
  \/ \E k \in Keys : GetPropertyHistoryHandlerFail(k)

SpecFault == Init /\ [][NextFault]_vars

\* One client at a time (handler h1 alone) using every route, and a store
\* whose insert and whose queries for verify and for the history may fail.
NextSolo ==
  \/ AddEntryBadJSON("h1")
  \/ \E payload \in Payloads : AddEntryBegin("h1", payload)
  \/ GetLastHash("h1")
  \/ \E t \in now..ClockStart + MaxTicks : NewEntry("h1", t)
  \/ InsertOne("h1")
  \/ InsertOneFail("h1")
  \/ \E k \in Keys : VerifyLedgerHandler(k)
  \/ \E k \in Keys : VerifyLedgerHandlerFail(k)
  \/ \E k \in Keys : GetPropertyHistoryHandler(k)
  \/ \E k \in Keys : GetPropertyHistoryHandlerFail(k)

SpecSolo == Init /\ [][NextSolo]_vars

\* The same client and store, with the scheduling the code has: a handler's
\* own computation (reading the clock, drawing the uuid, hashing) always goes
\* on, while a step that waits for the store is taken only if the store
\* answers, which nothing forces: the handlers pass context.TODO(), a context
\* with no deadline, and main sets no timeout on the client, so no step
\* ends a wait.
SpecWait ==
  /\ Init
  /\ [][NextSolo]_vars
  /\ WF_vars(\E t \in now..ClockStart + MaxTicks : NewEntry("h1", t))

\* One client at a time (handler h1 alone) posting entries, and one exchange
\* of two timestamps in the database.
NextSwap ==
  \/ AddEntryBadJSON("h1")
  \/ \E payload \in Payloads : AddEntryBegin("h1", payload)
  \/ GetLastHash("h1")
  \/ \E t \in now..ClockStart + MaxTicks : NewEntry("h1", t)
  \/ InsertOne("h1")
  \/ \E k \in Keys : VerifyLedgerHandler(k)
  \/ \E i \in 1..Len(store) : \E j \in 1..Len(store) : SwapTimestamps(i, j)

SpecSwap == Init /\ [][NextSwap]_vars

\* One client at a time (handler h1 alone) posting entries of survey K1 for
\* either property, and one edit of the database.
NextTamper ==
  \/ AddEntryBadJSON("h1")
  \/ \E payload \in {q \in Payloads : q.SurveyNumber = "K1"} : AddEntryBegin("h1", payload)
  \/ GetLastHash("h1")
  \/ \E t \in now..ClockStart + MaxTicks : NewEntry("h1", t)
  \/ InsertOne("h1")
  \/ \E k \in Keys : VerifyLedgerHandler(k)
  \/ \E i \in 1..Len(store) : \E f \in TamperFields : \E v \in TamperValues(f) :
        Tamper(i, f, v)

SpecTamper == Init /\ [][NextTamper]_vars

\* One client at a time, posting complete payloads and payloads with an empty
\* required field.
NextBlank ==
  \/ AddEntryBadJSON("h1")
  \/ \E payload \in BlankPayloads \cup {Payload("K1", "K1", "o", "Agricultural", "AwardDeclared", "d")} :
        AddEntryBegin("h1", payload)
  \/ GetLastHash("h1")
  \/ \E t \in now..ClockStart + MaxTicks : NewEntry("h1", t)
  \/ InsertOne("h1")
  \/ \E k \in Keys : VerifyLedgerHandler(k)

SpecBlank == Init /\ [][NextBlank]_vars

\* The property page used for one search, after any blank submits, on a
\* ledger on which one client starts its appends before the search starts.
NextPageOnce ==
  \/ search.count = 0 /\ \E payload \in PagePayloads : AddEntryBegin("h1", payload)
  \/ GetLastHash("h1")
  \/ \E t \in now..ClockStart + MaxTicks : NewEntry("h1", t)
  \/ InsertOne("h1")
  \/ search.count = 0 /\ SubmitBlank
  \/ search.count = 0 /\ \E k \in Keys : Submit(k)
  \/ PropertyFound
  \/ PropertyNotFound
  \/ PropertyServerError
  \/ PropertyNetworkError
  \/ \E r \in SearchIds : TimerFires(r)
  \/ \E r \in SearchIds : \E i \in 1..Len(runs[r].results) :
        \E outcome \in {"valid", "invalid", "notok", "thrown"} :
           VerifyResponse(r, i, outcome)

SpecPageOnce == Init /\ [][NextPageOnce]_vars

\* The property page used for two searches, on a ledger that one client has
\* filled with entries of survey number K1 and property number K1 before the
\* first search starts.
NextPage ==
  \/ search.count = 0 /\ AddEntryBegin("h1", Payload("K1", "K1", "o", "Agricultural",
                                                      "AwardDeclared", "d"))
  \/ GetLastHash("h1")
  \/ \E t \in now..ClockStart + MaxTicks : NewEntry("h1", t)
  \/ InsertOne("h1")
  \/ SubmitBlank
  \/ \E k \in Keys : Submit(k)
  \/ PropertyFound
  \/ PropertyNotFound
  \/ PropertyServerError
  \/ PropertyNetworkError
  \/ \E r \in SearchIds : TimerFires(r)
  \/ \E r \in SearchIds : \E i \in 1..Len(runs[r].results) :
        \E outcome \in {"valid", "invalid", "notok", "thrown"} :
           VerifyResponse(r, i, outcome)

SpecPage == Init /\ [][NextPage]_vars

\* The admin page as the only client of a server whose inserts may fail and
\* to which requests and from which answers may get lost.  The user fills
\* the form from top to bottom; the server reads the time the page's clock
\* shows.
NextAdmin ==
  \/ \E i \in 1..Len(TextInputs) :
        /\ \A j \in 1..(i - 1) : admin.formData[TextInputs[j]] # ""
        /\ handleInputChange(TextInputs[i], InputValues[i])
  \/ AdminSubmit
  \/ InNetwork /\ AddEntryBegin("h1", admin.body)
  \/ GetLastHash("h1")
  \/ NewEntry("h1", ClockStart + admin.clock \div 1000)
  \/ InsertOne("h1")
  \/ InsertOneFail("h1")
  \/ AdminResponse
  \/ AdminNetworkError
  \/ \E due \in admin.timers : ToastTimeout(due)
  \/ ToastDismiss
  \/ AdminTick

SpecAdmin == Init /\ [][NextAdmin]_vars

\* ------------------------------------------------------------------ claims
\* The digest recomputed from an entry's own fields and its prev_hash.
Recomputed(e) == calculateHash(HashInput(e))

\* s is one unbroken chain: it starts at the sentinel and every later entry
\* names the digest of the entry before it.
Linked(s) ==
  /\ Len(s) > 0 => s[1].PrevHash = "genesis"
  /\ \A i \in 2..Len(s) : s[i].PrevHash = s[i - 1].Hash

RequiredFields ==
  {"SurveyNumber", "PropertyNumber", "OwnerID", "LandType", "Action", "Details"}

\* C1: appends to one property number that run concurrently never fork its
\* chain: no two persisted entries of the property carry the same prev_hash.
C1_NoFork ==
  \A e1, e2 \in Entries :
    (e1 # e2 /\ e1.PropertyNumber = e2.PropertyNumber) => e1.PrevHash # e2.PrevHash

\* C2: after appends to one chain key made strictly one after the other,
\* verify on that key answers valid = true.  Stated for the stores that hold
\* entries of that one property number only, none of whose appends overlapped,
\* and whose timestamps are pairwise distinct (the claim also covers equal
\* timestamps; with these the verdict does not depend on how ties are sorted).
C2_SequentialAppendsVerify ==
  ( /\ response.op = "verify"
    /\ response.status = 200
    /\ response.land_id \notin raced
    /\ \A e \in Entries : e.PropertyNumber = response.land_id
    /\ \A e1, e2 \in Entries : e1 # e2 => e1.Timestamp # e2.Timestamp )
  => response.valid

\* C3: append and verify use the same chain key: for every key, the entries
\* verify fetches are the entries whose appends resolved their tail from that key.
C3_SameChainKey ==
  \A k \in Keys : FindBySurvey(k) = FindByProperty(k)

\* C4: once a single field of a stored entry has been changed and its digest
\* left as it was, verify on the chain the entry was stored in answers
\* valid = false.  Stated for the verifies that scan the edited entry (an edit
\* of the survey number takes the entry out of the chain it was stored in).
C4_TamperDetected ==
  ( /\ tampered.pos # 0
    /\ response.op = "verify"
    /\ response.status = 200
    /\ response.land_id = tampered.survey
    /\ \E i \in 1..Len(response.chain) : response.chain[i] = store[tampered.pos] )
  => ~response.valid

\* C5: in every state, the entries of every property number, in some ascending
\* order of their timestamps, start at the sentinel and are linked entry to entry.
C5_ChainInvariant ==
  \A k \in Keys : \E s \in SortedByTimestamp(FindByProperty(k)) : Linked(s)

\* C6: an append that no other append on its property number overlapped stores
\* an entry whose prev_hash is the digest of the entry of that property stored
\* last before it, and is the sentinel exactly when there is no such entry.
C6_SoloAppendLinksTail ==
  ( /\ response.op = "add_entry"
    /\ response.status = 200
    /\ response.alone )
  => LET e == response.entry
         SameProperty(x) == x.PropertyNumber = e.PropertyNumber
         before == SelectSeq(SubSeq(store, 1, Len(store) - 1), SameProperty)
     IN IF before = <<>> THEN e.PrevHash = "genesis"
        ELSE e.PrevHash = before[Len(before)].Hash /\ e.PrevHash # "genesis"

\* C7: an append whose tail query failed is answered with an error and stores
\* no entry.
C7_FailedQueryFailsAppend ==
  (response.op = "add_entry" /\ response.findErr)
  => (response.status = 500 /\ response.entry = NoEntry)

\* C8: an add_entry request with an empty required field is answered with a
\* validation error (400) and stores no entry.
C8_BlankFieldRejected ==
  ( /\ response.op = "add_entry"
    /\ \E f \in RequiredFields : response.payload[f] = "" )
  => (response.status = 400 /\ response.entry = NoEntry)

\* C9: verify answers valid = true exactly when, in the scanned
\* timestamp-ascending arrangement of the survey's entries, every adjacent pair
\* has curr.prev_hash = prev.hash and curr.hash equal to the recomputed digest.
C9_ValidIffEveryPairHolds ==
  (response.op = "verify" /\ response.status = 200)
  => LET chain == response.chain
     IN /\ {chain[i] : i \in 1..Len(chain)} = FindBySurvey(response.land_id)
        /\ Len(chain) = Cardinality(FindBySurvey(response.land_id))
        /\ \A i \in 2..Len(chain) : chain[i - 1].Timestamp <= chain[i].Timestamp
        /\ (response.valid <=>
             \A i \in 2..Len(chain) :
               /\ chain[i].PrevHash = chain[i - 1].Hash
               /\ chain[i].Hash = Recomputed(chain[i]))

\* A verify of three entries whose first pair is broken and whose second pair
\* is intact: the scan stopped at the first pair.
C9_Witness ==
  /\ response.op = "verify"
  /\ response.status = 200
  /\ Len(response.chain) = 3
  /\ response.chain[2].PrevHash # response.chain[1].Hash
  /\ response.chain[3].PrevHash = response.chain[2].Hash
  /\ response.chain[3].Hash = Recomputed(response.chain[3])
  /\ ~response.valid

\* C10: verify answers valid = true only if the first entry of the chain
\* starts at the sentinel and carries the digest recomputed from its fields.
C10_FirstEntryChecked ==
  ( /\ response.op = "verify"
    /\ response.status = 200
    /\ response.valid
    /\ Len(response.chain) > 0 )
  => /\ response.chain[1].PrevHash = "genesis"
     /\ response.chain[1].Hash = Recomputed(response.chain[1])

\* C11: verify on an unchanged chain always answers the same: in every state
\* and for every key, every order in which the store may return the entries,
\* and every way the sort may leave entries of equal timestamp, gives one verdict.
C11_VerifyDeterministic ==
  \A k \in Keys : Cardinality(VerifyResults(k)) = 1

\* C12: verify and the property-history listing never mutate state: across
\* every step that answers one of them, with any status, the store (the
\* sequence of persisted entries with every field) is the same as before.
C12_ReadsLeaveStore ==
  [][response'.op \in {"verify", "history"} => store' = store]_vars

\* A verify answered valid = false for a chain of two stored entries, which
\* are still stored.
C12_Witness ==
  /\ response.op = "verify"
  /\ response.status = 200
  /\ ~response.valid
  /\ Len(response.chain) = 2
  /\ {response.chain[1], response.chain[2]} \subseteq Entries

\* C13: verify on a key with no entry and on a key with exactly one entry
\* answers valid = true.
C13_ShortChainValid ==
  ( /\ response.op = "verify"
    /\ response.status = 200
    /\ Cardinality(FindBySurvey(response.land_id)) <= 1 )
  => response.valid

\* A verify of the only entry stored under its survey number, an entry that
\* does not start at the sentinel, answered valid = true.
C13_Witness ==
  /\ response.op = "verify"
  /\ response.status = 200
  /\ Cardinality(FindBySurvey(response.land_id)) = 1
  /\ Len(response.chain) = 1
  /\ response.chain[1].PrevHash # "genesis"
  /\ response.valid

\* C14: the answer of verify(K) carries a count, the number of entries stored
\* for K when the query ran.  The answer's values are the ones its JSON object
\* names, so the claim needs the key "count" in it.
C14_VerifyCarriesCount ==
  (response.op = "verify" /\ response.status = 200)
  => "count" \in response.keys

\* C15: once the timestamps of two entries of a chain built by appends made
\* one after the other have been exchanged, which exchanges their places in
\* the scanned order, and no prev_hash has been updated, verify on that chain
\* answers valid = false.
C15_SwapDetected ==
  ( /\ tampered.other # 0
    /\ response.op = "verify"
    /\ response.status = 200
    /\ response.land_id = tampered.survey )
  => ~response.valid

\* A chain of three entries, linked from the sentinel in the order they were
\* stored, whose first and last timestamps were exchanged: verify answers
\* valid = false.
C15_Witness ==
  /\ tampered.pos = 1
  /\ tampered.other = 3
  /\ Len(store) = 3
  /\ Linked(store)
  /\ \A i \in 1..3 : store[i].SurveyNumber = tampered.survey
  /\ response.op = "verify"
  /\ response.status = 200
  /\ response.land_id = tampered.survey
  /\ Len(response.chain) = 3
  /\ ~response.valid

\* C16: the encoding of the timestamp in the digest input is injective over
\* the times the clock produces: a stored entry and the same entry carrying
\* another stored entry's different timestamp have different digest inputs.
C16_TimestampEncodingInjective ==
  \A e1, e2 \in Entries :
    e1.Timestamp # e2.Timestamp
    => HashInput(e1) # HashInput([e1 EXCEPT !.Timestamp = e2.Timestamp])

\* The text fields in the order createEntry concatenates them.
TextFields ==
  <<"ID", "SurveyNumber", "PropertyNumber", "OwnerID", "LandType", "Action",
    "Details">>

\* The field tuple e with the characters of its i-th text field moved to the
\* front of the next text field.
MovedRight(e, i) ==
  [e EXCEPT ![TextFields[i]] = "",
            ![TextFields[i + 1]] = e[TextFields[i]] \o e[TextFields[i + 1]]]

\* C17: the hashed string is an injective encoding of the field tuple: a stored
\* entry and a different tuple, got from it by moving the characters of one
\* field into the adjacent field, have different digest inputs.
C17_HashInputInjective ==
  \A e \in Entries : \A i \in 1..(Len(TextFields) - 1) :
    MovedRight(e, i) # e => HashInput(MovedRight(e, i)) # HashInput(e)

\* C18: appends to different chain keys are independent: a step that stores an
\* entry of property number K leaves, for every other key, the entries of that
\* key, the tail digest an append to it would resolve, and the verdicts verify
\* can reach on it as they were.
C18_AppendLeavesOtherKeys ==
  [][Len(store') = Len(store) + 1
     => \A k \in Keys \ {store'[Len(store')].PropertyNumber} :
          /\ FindByProperty(k)' = FindByProperty(k)
          /\ LastHashes(k)' = LastHashes(k)
          /\ VerifyResults(k)' = VerifyResults(k)]_vars

\* The entries of survey number k in the order they were stored.
ChainOf(k) == SelectSeq(store, LAMBDA e : e.SurveyNumber = k)

\* The chain of k is valid: in the order it was built it starts at the
\* sentinel, is linked entry to entry, and every digest is the recomputed one;
\* and it is one chain for append and for verify (every entry of k has k as
\* its survey number and as its property number).
ValidChain(k) ==
  /\ FindBySurvey(k) = FindByProperty(k)
  /\ Linked(ChainOf(k))
  /\ \A e \in FindBySurvey(k) : e.Hash = Recomputed(e)

\* C19: a verify that runs while an append to the same, valid chain is in
\* flight answers valid = true.  (An insert is one atomic write, so the
\* snapshot holds whole entries only; the state after the insert is again a
\* state with a valid chain.)
C19_VerifyDuringAppend ==
  ( /\ response.op = "verify"
    /\ response.status = 200
    /\ ValidChain(response.land_id)
    /\ \E p \in InFlight : /\ req[p].SurveyNumber = response.land_id
                           /\ req[p].PropertyNumber = response.land_id )
  => response.valid

C22_TimestampOrderIsLinkOrder ==
  \A k \in Keys : \A s \in SortedByTimestamp(FindByProperty(k)) :
    \A i, j \in 1..Len(s) :
      s[j].PrevHash = s[i].Hash => (s[i].Timestamp <= s[j].Timestamp /\ i < j)

\* C23: an append whose store operation fails repeats its read-tail, compute,
\* insert cycle before it surfaces the failure: a step in which a call's
\* insert stores nothing takes the call back to reading the tail; it does not
\* end the call.
C23_FailedInsertRetried ==
  [][\A p \in Handlers :
       (pc[p] = "insertOne" /\ store' = store /\ pc'[p] # "insertOne")
       => pc'[p] = "getLastHash"]_vars

\* C24: every call returns, also when the store never answers: a handler that
\* has started an append is eventually idle again.
C24_CallsReturn ==
  \A p \in Handlers : (pc[p] # "idle") ~> (pc[p] = "idle")

\* C25: append and verify compute the digest as one function of the same
\* fields in the same order: every entry createEntry has persisted, none of
\* which is modified afterwards here, carries the digest verify recomputes
\* from its stored fields.
C25_StoredDigestIsRecomputed ==
  \A e \in Entries : e.Hash = Recomputed(e)

\* A verify that scanned three entries, stored at two different times at
\* least and linked from two different tails at least: each carries the
\* digest recomputed from its stored fields.
C25_Witness ==
  /\ response.op = "verify"
  /\ response.status = 200
  /\ Len(response.chain) = 3
  /\ response.chain[1].Timestamp # response.chain[3].Timestamp
  /\ response.chain[1].PrevHash # response.chain[3].PrevHash
  /\ \A i \in 1..3 : response.chain[i].Hash = Recomputed(response.chain[i])

\* C26: a history listing whose query succeeds answers 404 when no entry has
\* the property number, and else 200 with exactly the entries of that property
\* number, each once, in ascending order of timestamp, whether they form an
\* unbroken chain or not.
C26_HistoryListsProperty ==
  (response.op = "history" /\ ~response.findErr)
  => LET history == response.chain
         found == FindByProperty(response.land_id)
     IN IF found = {}
        THEN response.status = 404 /\ history = <<>>
        ELSE /\ response.status = 200
             /\ {history[i] : i \in 1..Len(history)} = found
             /\ Len(history) = Cardinality(found)
             /\ \A i \in 2..Len(history) :
                  history[i - 1].Timestamp <= history[i].Timestamp

\* A listing of the three entries of a property number that form no chain
\* in any timestamp order (two of them link to the same entry), answered
\* with 200.
C26_Witness ==
  /\ response.op = "history"
  /\ response.status = 200
  /\ Len(response.chain) = 3
  /\ \A s \in SortedByTimestamp(FindByProperty(response.land_id)) : ~Linked(s)

\* The survey numbers among the entries the page holds.
DisplayedSurveys ==
  {page.ledgerEntries[i].SurveyNumber : i \in 1..Len(page.ledgerEntries)}

\* C27: on the property page, a search for a property whose entries were
\* appended one after the other and never modified ends with isValid = true,
\* whatever survey numbers the entries carry.  Stated for the searches all of
\* whose verify requests were answered with 200, on stores whose timestamps
\* are pairwise distinct (the verdicts then do not depend on how ties sort).
C27_SearchEndsValid ==
  ( /\ runs[1].pc = "done"
    /\ \A i \in 1..Len(runs[1].results) : runs[1].results[i] \in {"valid", "invalid"}
    /\ \A e1, e2 \in Entries : e1 # e2 => e1.Timestamp # e2.Timestamp )
  => page.verificationStatus.isValid = "true"

\* C28: the verification status on display belongs to the most recent search:
\* it was written last by that search's handleSubmit or by its verifyLedger
\* call, never by the call of an earlier search.
C28_StatusOfLatestSearch ==
  search.writer = search.count

\* C29: when the verifyLedger call of a search has finished, isVerifying is
\* false, the survey numbers it asked about are the distinct survey numbers of
\* the property's entries, and isValid is true exactly when every request was
\* answered ok with valid = true; an answer that is not ok, or a throw, gives
\* isValid = false.
C29_VerdictIsConjunction ==
  runs[1].pc = "done"
  => LET status == page.verificationStatus
         asked == Unique(runs[1].surveyNumbers)
         results == runs[1].results
     IN /\ status.isVerifying = FALSE
        /\ {asked[i] : i \in 1..Len(asked)} = DisplayedSurveys
        /\ Len(asked) = Cardinality(DisplayedSurveys)
        /\ status.isValid \in {"true", "false"}
        /\ (status.isValid = "true")
             <=> (\A i \in 1..Len(asked) : results[i] = "valid")
        /\ (\E i \in 1..Len(asked) : results[i] \in {"notok", "thrown"})
             => status.isValid = "false"

\* A finished call that asked about two survey numbers: the first chain was
\* answered invalid, the second valid, and isValid is false.
C29_Witness ==
  /\ runs[1].pc = "done"
  /\ runs[1].results = <<"invalid", "valid">>
  /\ page.verificationStatus.isValid = "false"
  /\ ~page.verificationStatus.isVerifying

\* C30: after a successful search with at least one entry, the current owner
\* shown is the owner of the last entry of the displayed timeline, also when
\* entries share the greatest timestamp.
C30_OwnerOfLastEntry ==
  (search.count > 0 /\ search.pc = "idle" /\ page.ledgerEntries # <<>>)
  => page.currentOwner = page.ledgerEntries[Len(page.ledgerEntries)].OwnerID

\* C31: on the admin page at most one add_entry request is in flight at any
\* time, whenever a second submit event comes, and the ledger never holds
\* more records than the page had submissions.
C31_OneRequestInFlight ==
  /\ admin.inFlight <= 1
  /\ Len(store) <= admin.sent

\* The page's second submission is in flight and being handled after its
\* first one was stored.
C31_Witness ==
  /\ admin.sent = 2
  /\ admin.inFlight = 1
  /\ admin.isSubmitting
  /\ Len(store) = 1
  /\ pc["h1"] = "insertOne"

\* C32: a toast of the admin page is removed by a timer only when 5 seconds
\* have passed since that toast was shown; the timer of an earlier toast
\* never removes a later one.
C32_ToastStaysFiveSeconds ==
  [][(admin.toast # NoToast /\ admin'.toast = NoToast /\ admin'.timers # admin.timers)
       => admin.clock >= admin.shownAt + ToastDelay]_vars

\* C33: when a submission of the admin page ends, isSubmitting is false; the
\* success toast is shown only for a success answer; the form data changes
\* only together with the success toast, and then to the defaults; in every
\* other case (a non-success answer, a network error) the form data is
\* unchanged and an error toast is shown.
C33_FormResetOnlyOnSuccess ==
  [][admin'.inFlight < admin.inFlight
       => /\ ~admin'.isSubmitting
          /\ admin'.toast.type = "success"
               => response.op = "add_entry" /\ response.status = 200
          /\ admin'.formData # admin.formData
               => admin'.toast.type = "success" /\ admin'.formData = DefaultForm
          /\ admin'.toast.type # "success"
               => admin'.toast.type = "error" /\ admin'.formData = admin.formData]_vars

\* The first submission was stored and the form refilled; the second one was
\* answered 500 and has ended with the error toast over the filled form.
C33_Witness ==
  /\ admin.sent = 2
  /\ admin.inFlight = 0
  /\ ~admin.isSubmitting
  /\ Len(store) = 1
  /\ admin.lost = 0
  /\ admin.toast = [type |-> "error", message |-> "Failed to add land entry"]
  /\ FormValid(admin.formData)

\* The messages handleSubmit's failure branches pass to setError.
SearchFailureMessages ==
  {"Property not found", "Failed to fetch property details",
   "Network error: Unable to connect to server"}

\* C34: on the property page, once a search has ended in not-found, in another
\* error response or in a network error, ledgerEntries is empty, currentOwner
\* is null and isLoading is false, and they stay so until the next search:
\* no entry or owner of an earlier search is displayed.
C34_FailedSearchClears ==
  page.error \in SearchFailureMessages
    => /\ page.ledgerEntries = <<>>
       /\ page.currentOwner = Null
       /\ ~page.isLoading

\* The first search displayed entries and started its verification, the second
\* search has failed.
C34_Witness ==
  /\ search.count = 2
  /\ search.pc = "idle"
  /\ runs[1].pc # "none"
  /\ page.error \in SearchFailureMessages
  /\ page.ledgerEntries = <<>>
====
